---- MODULE Spec2Model ----
(***************************************************************************)
(* Model of the two browser widgets of the repository:                     *)
(*   - the avatar widget Klleon, in its guarded variant (isInitializing    *)
(*     flag, non-wrapping cursor) and in its older variant (no flag,       *)
(*     wrapping cursor, stop by re-init with an empty key);                *)
(*   - the speech widget AzureSpeech.                                      *)
(* The vendor SDKs are external: their promises settle either way, their   *)
(* calls may throw, and their callbacks fire whenever they are registered. *)
(***************************************************************************)
EXTENDS Integers, Sequences, FiniteSets, Bags, TLC

\* ------------------------------------------------------------------ bounds
MaxLines == 3       \* longest echo message list drawn in Init
MaxInFlight == 2    \* startSDK executions awaiting at once
MaxStops == 1       \* older stopSDK executions awaiting at once
MaxMic == 1         \* startMic executions awaiting the permission at once
MaxRecognizers == 2 \* recognizers constructed in one run
MaxStopCalls == 2   \* stop callbacks one recognizer has outstanding
MaxBuf == 2         \* results buffered at once
MaxLog == 5         \* lines in the visible log
MaxNotices == 1     \* session-started and canceled lines in the visible log

VARIABLES
    variant,            \* "guarded" (Klleon with isInitializing) or "older"
    SDK_KEY,            \* import.meta.env.VITE_API_KEY ("" when missing)
    AVATAR_ID,          \* import.meta.env.VITE_API_Model ("" when missing)
    echoMessages,       \* the static list of dialogue lines
    isAvatarSpeaking,
    status,
    isSDKInitialized,
    isInitializing,
    currentEchoIndex,
    starts,             \* startSDK executions suspended at an await
    stops,              \* stopSDK executions suspended at an await (older)
    statusCb,           \* vendor holds a registered status callback
    chatCb,             \* vendor holds a registered chat callback
    session,            \* vendor holds a live session: an init with the
                        \* configured credentials resolved, and since then
                        \* no destroy returned and no init with an empty key
                        \* resolved
    mounted,            \* the Klleon component is mounted
    spoken,             \* history: echo calls the non-wrapping widget saw
                        \* return since mount or the last reset
    ev,                 \* history: what the avatar widget's last step did
    ui,                 \* history: every handler so far was invoked by a
                        \* click on a button that was enabled (or shown)
    AZURE_KEY,          \* import.meta.env.VITE_AZURE_SPEECH_KEY ("": missing)
    AZURE_REGION,       \* import.meta.env.VITE_AZURE_SPEECH_REGION
    log,                \* the visible log: the bag of its lines (the order
                        \* of the lines is not modelled)
    listening,
    recognizerRef,      \* 0 (null) or the recognizer referenced
    resultsRef,         \* the buffer of recognized results
    recognizers,        \* the recognizers constructed so far
    micPending,         \* startMic executions awaiting getUserMedia
    aev                 \* history: what the speech widget's last step did

avatarState == <<isAvatarSpeaking, status, isSDKInitialized, isInitializing,
                 currentEchoIndex>>
\* what no handler changes: the build, the script, and being mounted
avatarEnv == <<variant, SDK_KEY, AVATAR_ID, echoMessages, mounted>>
vendorState == <<starts, stops, statusCb, chatCb, session>>
avatarVars == <<avatarEnv, avatarState, vendorState, spoken, ev>>

azureEnv == <<AZURE_KEY, AZURE_REGION>>
azureState == <<log, listening, recognizerRef, resultsRef>>
azureVars == <<azureEnv, azureState, recognizers, micPending, aev>>

vars == <<avatarVars, azureVars, ui>>

\* ------------------------------------------------------------ vocabulary
StatusValues == {"IDLE", "VIDEO_CAN_PLAY"}
ChatTypes == {"PREPARING_RESPONSE", "RESPONSE_IS_ENDED", "TEXT"}

\* A vendor call: the operation and its arguments.
VC(op, arg) == [op |-> op, arg |-> arg]
\* The pseudo-step of a handler body that checks the environment variables.
CheckEnv == [op |-> "check", arg |-> <<>>]

\* What the last step was: handler h (a click, or "<handler>.<continuation>"
\* for the code after an await), its outcome r, the vendor calls it made in
\* this step, the vendor calls of its whole execution so far, the alert it
\* raised ("none" when it raised none), the cursor it read, and whether the
\* session was initialized when the handler was invoked.
EvX(h, r, calls, xlog, alert, init0) ==
    [h |-> h, r |-> r, calls |-> calls, xlog |-> xlog, alert |-> alert,
     at |-> currentEchoIndex, init0 |-> init0]

Ev(h, r, calls, xlog, alert) ==
    EvX(h, r, calls, xlog, alert, isSDKInitialized)

StartHandlers == {"startSDK", "startSDK.timer", "startSDK.then",
                  "startSDK.catch"}
StopHandlers == {"stopSDK", "stopSDK.then", "stopSDK.catch"}

\* echoMessages[i] of the source (0-based); out of range is undefined.
Line(i) ==
    IF i + 1 \in DOMAIN echoMessages THEN echoMessages[i + 1] ELSE "undefined"

\* !SDK_KEY || !AVATAR_ID
CredentialsMissing == SDK_KEY = "" \/ AVATAR_ID = ""

\* ------------------------------------------------------ running a body
\* A synchronous stretch of a handler is a sequence of vendor calls and
\* checks.  It stops at the first step that throws: the environment check
\* when a credential is missing, or the vendor call number f when the vendor
\* throws there (f = 0: the vendor throws nowhere).
Throws(prog, i, f) ==
    \/ prog[i].op = "check" /\ CredentialsMissing
    \/ prog[i].op # "check" /\ i = f

ThrowAt(prog, f) ==
    LET bad == {i \in 1..Len(prog) : Throws(prog, i, f)}
    IN  IF bad = {} THEN 0 ELSE CHOOSE i \in bad : \A j \in bad : i <= j

Faults(prog) == {0} \cup {i \in 1..Len(prog) : prog[i].op # "check"}

\* The vendor calls made by running prog with fault f, and whether it threw.
Run(prog, f) ==
    LET t == ThrowAt(prog, f)
        done == IF t = 0 THEN prog ELSE SubSeq(prog, 1, t)
    IN  [calls |-> SelectSeq(done, LAMBDA s : s.op # "check"),
         threw |-> t # 0,
         vendorThrew |-> t # 0 /\ prog[t].op # "check"]

RemoveAt(s, i) == SubSeq(s, 1, i - 1) \o SubSeq(s, i + 1, Len(s))

\* Whether the vendor holds a callback registered by op after the calls of a
\* run: a registration that returned sets it; destroy() removes the listeners
\* or leaves them (keep), the vendor's choice.
Registered(cb, run, op, keep) ==
    LET n == Len(run.calls)
        ret == IF run.vendorThrew THEN n - 1 ELSE n
        F[i \in 0..n] ==
            IF i = 0 THEN cb
            ELSE IF run.calls[i].op = op /\ i <= ret THEN TRUE
            ELSE IF run.calls[i].op = "destroy" THEN F[i - 1] /\ keep
            ELSE F[i - 1]
    IN  F[n]

\* a destroy of the run returned
Destroyed(run) ==
    \E i \in DOMAIN run.calls :
      /\ run.calls[i].op = "destroy"
      /\ (run.vendorThrew => i < Len(run.calls))

\* live: the vendor held a session when the run began
VendorAfter(live, run, keep) ==
    /\ statusCb' = Registered(statusCb, run, "onStatusEvent", keep)
    /\ chatCb' = Registered(chatCb, run, "onChatEvent", keep)
    /\ session' = (live /\ ~Destroyed(run))

\* The cleanup the effect of the render with isSDKInitialized = was returned:
\* if (isSDKInitialized) { try { KlleonChat.destroy?.() } catch {} }.  React
\* runs it when the dependency isSDKInitialized changes and on unmount.
EffectCleanup(was) == IF was THEN <<VC("destroy", <<>>)>> ELSE <<>>

\* ------------------------------------------------------------------ Init
\* echoMessages.json: n distinct lines, "1", "2", ...
EchoLists == {[i \in 1..n |-> ToString(i)] : n \in 0..MaxLines}

AvatarInit ==
    /\ variant \in {"guarded", "older"}
    /\ SDK_KEY \in {"", "key"}
    /\ AVATAR_ID \in {"", "avatar"}
    /\ echoMessages \in EchoLists
    /\ isAvatarSpeaking = FALSE
    /\ status = "IDLE"
    /\ isSDKInitialized = FALSE
    /\ isInitializing = FALSE
    /\ currentEchoIndex = 0
    /\ starts = <<>>
    /\ stops = <<>>
    /\ statusCb = FALSE
    /\ chatCb = FALSE
    /\ session = FALSE
    /\ mounted = TRUE
    /\ spoken = 0
    /\ ui = TRUE
    /\ ev = [h |-> "mount", r |-> "ok", calls |-> <<>>, xlog |-> <<>>,
             alert |-> "none", at |-> 0, init0 |-> FALSE]

\* the guard without the isInitializing flag
StartGuard_NoFlag == isSDKInitialized

\* the speak button without the cursor check
SpeakDisabled_NoCursor ==
    \/ ~isSDKInitialized
    \/ isAvatarSpeaking
    \/ Len(echoMessages) = 0
    \/ isInitializing

\* ------------------------------------------------------------- buttons
\* guarded variant, the disabled={...} of each button
StartDisabled == isSDKInitialized \/ isInitializing
StopDisabled == ~isSDKInitialized \/ isInitializing
SpeakDisabled ==
    \/ ~isSDKInitialized
    \/ isAvatarSpeaking
    \/ Len(echoMessages) = 0
    \/ isInitializing
    \/ currentEchoIndex >= Len(echoMessages)
ResetDisabled == ~isSDKInitialized \/ isAvatarSpeaking \/ isInitializing
StopSpeechDisabled == ~isSDKInitialized \/ ~isAvatarSpeaking

\* older variant, the disabled={...} of each button
OldStartDisabled == isSDKInitialized
OldStopDisabled == ~isSDKInitialized
OldSpeakDisabled ==
    ~isSDKInitialized \/ isAvatarSpeaking \/ Len(echoMessages) = 0
OldResetDisabled == ~isSDKInitialized \/ isAvatarSpeaking
OldStopSpeechDisabled == ~isSDKInitialized \/ ~isAvatarSpeaking

\* A handler runs by its button's onClick, while the component is mounted;
\* the history notes whether the button was enabled.
Click(disabled) == mounted /\ ui' = (ui /\ ~disabled)

\* ------------------------------------------- guarded variant: startSDK
\* if (isInitializing || isSDKInitialized) return;
StartGuard == isInitializing \/ isSDKInitialized

\* try { KlleonChat.destroy?.(); await new Promise(setTimeout 100) ...
StartProlog == <<VC("destroy", <<>>)>>

\* init called before the chat callback is registered
StartBody_InitFirst ==
    <<VC("onStatusEvent", <<>>), CheckEnv,
      VC("init", <<SDK_KEY, AVATAR_ID>>), VC("onChatEvent", <<>>)>>

\* ... onStatusEvent(cb); onChatEvent(cb); if (!SDK_KEY || !AVATAR_ID) throw;
\* await KlleonChat.init({sdk_key, avatar_id})
StartBody ==
    <<VC("onStatusEvent", <<>>), VC("onChatEvent", <<>>), CheckEnv,
      VC("init", <<SDK_KEY, AVATAR_ID>>)>>

\* the catch without the finally
StartCatch_NoFinally ==
    /\ status' = "IDLE"
    /\ UNCHANGED <<isAvatarSpeaking, isSDKInitialized, isInitializing,
                   currentEchoIndex>>

\* catch { setStatus("IDLE") } finally { setIsInitializing(false) }
StartCatch ==
    /\ status' = "IDLE"
    /\ isInitializing' = FALSE
    /\ UNCHANGED <<isAvatarSpeaking, isSDKInitialized, currentEchoIndex>>

\* The click: the guard, setIsInitializing(true), destroy, then the timer.
startSDK ==
    /\ variant = "guarded"
    /\ Click(StartDisabled)
    /\ UNCHANGED azureVars
    /\ IF StartGuard
       THEN /\ ev' = Ev("startSDK", "ignored", <<>>, <<>>, "none")
            /\ UNCHANGED <<avatarState, vendorState>>
       ELSE /\ Len(starts) < MaxInFlight
            /\ \E f \in Faults(StartProlog), keep \in BOOLEAN :
                 LET run == Run(StartProlog, f) IN
                 /\ VendorAfter(session, run, keep)
                 /\ IF run.threw
                    THEN /\ StartCatch
                         /\ starts' = starts
                         /\ ev' = Ev("startSDK", "failed", run.calls,
                                     run.calls, "none")
                    ELSE /\ isInitializing' = TRUE
                         /\ starts' = Append(starts,
                                [pc |-> "timer", log |-> run.calls])
                         /\ ev' = Ev("startSDK", "await", run.calls,
                                     run.calls, "none")
                         /\ UNCHANGED <<isAvatarSpeaking, status,
                                        isSDKInitialized, currentEchoIndex>>
            /\ UNCHANGED stops
    /\ UNCHANGED <<avatarEnv, spoken>>

\* The 100 ms timer fired: register the callbacks, check the environment,
\* call init and await it.
startSDK_timer ==
    /\ variant = "guarded"
    /\ UNCHANGED ui
    /\ UNCHANGED azureVars
    /\ \E i \in 1..Len(starts), f \in Faults(StartBody), keep \in BOOLEAN :
         LET run == Run(StartBody, f)
             xlog == starts[i].log \o run.calls IN
         /\ starts[i].pc = "timer"
         /\ VendorAfter(session, run, keep)
         /\ IF run.threw
            THEN /\ StartCatch
                 /\ starts' = RemoveAt(starts, i)
                 /\ ev' = Ev("startSDK.timer", "failed", run.calls, xlog, "none")
            ELSE /\ starts' = [starts EXCEPT ![i] =
                                  [pc |-> "init", log |-> xlog]]
                 /\ ev' = Ev("startSDK.timer", "await", run.calls, xlog, "none")
                 /\ UNCHANGED avatarState
    /\ UNCHANGED <<avatarEnv, stops, spoken>>

\* init resolved: setIsSDKInitialized(true); finally setIsInitializing(false)
startSDK_resolve ==
    /\ variant = "guarded"
    /\ UNCHANGED ui
    /\ UNCHANGED azureVars
    /\ \E i \in 1..Len(starts) :
         /\ starts[i].pc = "init"
         /\ isSDKInitialized' = TRUE
         /\ isInitializing' = FALSE
         /\ starts' = RemoveAt(starts, i)
         /\ ev' = Ev("startSDK.then", "ok", <<>>, starts[i].log, "none")
    /\ session' = TRUE
    /\ UNCHANGED <<avatarEnv, isAvatarSpeaking, status, currentEchoIndex,
                   stops, statusCb, chatCb, spoken>>

\* init rejected: the catch and the finally
startSDK_reject ==
    /\ variant = "guarded"
    /\ UNCHANGED ui
    /\ UNCHANGED azureVars
    /\ \E i \in 1..Len(starts) :
         /\ starts[i].pc = "init"
         /\ StartCatch
         /\ starts' = RemoveAt(starts, i)
         /\ ev' = Ev("startSDK.catch", "failed", <<>>, starts[i].log, "none")
    /\ UNCHANGED <<avatarEnv, stops, statusCb, chatCb, session, spoken>>

\* ------------------------------------------- guarded variant: stopSDK
\* try { KlleonChat.stopSpeech?.(); KlleonChat.destroy?.(); ... }
StopBody == <<VC("stopSpeech", <<>>), VC("destroy", <<>>)>>

\* the reset without setIsAvatarSpeaking(false)
StopReset_KeepsSpeaking ==
    /\ isSDKInitialized' = FALSE
    /\ status' = "IDLE"
    /\ UNCHANGED <<isAvatarSpeaking, isInitializing, currentEchoIndex>>

\* setIsSDKInitialized(false); setStatus("IDLE"); setIsAvatarSpeaking(false)
StopReset ==
    /\ isSDKInitialized' = FALSE
    /\ status' = "IDLE"
    /\ isAvatarSpeaking' = FALSE
    /\ UNCHANGED <<isInitializing, currentEchoIndex>>

\* The click.  The reset changes isSDKInitialized, so the render that follows
\* runs the cleanup of the previous effect.
stopSDK ==
    /\ variant = "guarded"
    /\ Click(StopDisabled)
    /\ UNCHANGED azureVars
    /\ IF ~isSDKInitialized
       THEN /\ ev' = Ev("stopSDK", "ignored", <<>>, <<>>, "none")
            /\ UNCHANGED <<avatarState, vendorState>>
       ELSE \E f \in Faults(StopBody), keep \in BOOLEAN :
              LET run == Run(StopBody, f) IN
              /\ VendorAfter(session, run, keep)
              /\ IF run.threw
                 THEN /\ UNCHANGED avatarState
                      /\ ev' = Ev("stopSDK", "failed", run.calls, run.calls,
                                  "none")
                 ELSE LET calls == run.calls \o EffectCleanup(isSDKInitialized)
                      IN  /\ StopReset
                          /\ ev' = Ev("stopSDK", "ok", calls, calls, "none")
              /\ UNCHANGED <<starts, stops>>
    /\ UNCHANGED <<avatarEnv, spoken>>

\* the range check off by one
EchoExhausted_OffByOne == currentEchoIndex > Len(echoMessages)

\* ------------------------------------ guarded variant: the echo script
\* if (currentEchoIndex >= echoMessages.length) { alert(...); return; }
EchoExhausted == currentEchoIndex >= Len(echoMessages)

\* the cursor advanced past a line
NextEchoIndex_Skip == currentEchoIndex + 2

\* setCurrentEchoIndex(currentEchoIndex + 1)
NextEchoIndex == currentEchoIndex + 1

\* KlleonChat.echo(echoMessages[currentEchoIndex]) and the cursor's advance;
\* echo is called outside any try: when it throws the handler ends there.
Speak(next, counted) ==
    \E threw \in BOOLEAN :
      LET call == <<VC("echo", <<Line(currentEchoIndex)>>)>> IN
      /\ IF threw
         THEN /\ ev' = Ev("playNextEcho", "threw", call, call, "none")
              /\ UNCHANGED <<currentEchoIndex, spoken>>
         ELSE /\ ev' = Ev("playNextEcho", "spoke", call, call, "none")
              /\ currentEchoIndex' = next
              /\ spoken' = IF counted THEN spoken + 1 ELSE spoken

playNextEcho ==
    /\ variant = "guarded"
    /\ Click(SpeakDisabled)
    /\ UNCHANGED azureVars
    /\ IF ~isSDKInitialized
       THEN /\ ev' = Ev("playNextEcho", "ignored", <<>>, <<>>, "startFirst")
            /\ UNCHANGED <<currentEchoIndex, spoken>>
       ELSE IF Len(echoMessages) > 0
       THEN IF EchoExhausted
            THEN /\ ev' = Ev("playNextEcho", "ignored", <<>>, <<>>, "allRead")
                 /\ UNCHANGED <<currentEchoIndex, spoken>>
            ELSE Speak(NextEchoIndex, TRUE)
       ELSE /\ ev' = Ev("playNextEcho", "ignored", <<>>, <<>>, "none")
            /\ UNCHANGED <<currentEchoIndex, spoken>>
    /\ UNCHANGED <<avatarEnv, isAvatarSpeaking, status, isSDKInitialized,
                   isInitializing, vendorState>>

\* stopSpeech forwarded whatever isSDKInitialized is
StopSpeechBody_Always ==
    \E threw \in BOOLEAN :
      ev' = Ev("stopSpeech", IF threw THEN "threw" ELSE "ok",
               <<VC("stopSpeech", <<>>)>>, <<VC("stopSpeech", <<>>)>>, "none")

\* if (isSDKInitialized) { KlleonChat.stopSpeech(); }
StopSpeechBody ==
    IF isSDKInitialized
    THEN \E threw \in BOOLEAN :
           ev' = Ev("stopSpeech", IF threw THEN "threw" ELSE "ok",
                    <<VC("stopSpeech", <<>>)>>, <<VC("stopSpeech", <<>>)>>,
                    "none")
    ELSE ev' = Ev("stopSpeech", "ignored", <<>>, <<>>, "none")

stopSpeech ==
    /\ variant = "guarded"
    /\ Click(StopSpeechDisabled)
    /\ UNCHANGED azureVars
    /\ StopSpeechBody
    /\ UNCHANGED <<avatarEnv, avatarState, vendorState, spoken>>

\* a reset that also clears the speaking flag
resetEchoIndex_ClearsSpeaking ==
    /\ variant = "guarded"
    /\ Click(ResetDisabled)
    /\ UNCHANGED azureVars
    /\ currentEchoIndex' = 0
    /\ spoken' = 0
    /\ isAvatarSpeaking' = FALSE
    /\ ev' = Ev("resetEchoIndex", "ok", <<>>, <<>>, "none")
    /\ UNCHANGED <<avatarEnv, status, isSDKInitialized, isInitializing,
                   vendorState>>

\* setCurrentEchoIndex(0)
resetEchoIndex ==
    /\ variant = "guarded"
    /\ Click(ResetDisabled)
    /\ UNCHANGED azureVars
    /\ currentEchoIndex' = 0
    /\ spoken' = 0
    /\ ev' = Ev("resetEchoIndex", "ok", <<>>, <<>>, "none")
    /\ UNCHANGED <<avatarEnv, isAvatarSpeaking, status, isSDKInitialized,
                   isInitializing, vendorState>>

\* ---------------------------------------------- older variant: startSDK
\* onStatusEvent(cb); onChatEvent(cb); await KlleonChat.init({sdk_key, ...})
OldStartBody ==
    <<VC("onStatusEvent", <<>>), VC("onChatEvent", <<>>),
      VC("init", <<SDK_KEY, AVATAR_ID>>)>>

\* The click: no guard in the handler; the catch only logs to the console.
OldStartSDK ==
    /\ variant = "older"
    /\ Click(OldStartDisabled)
    /\ UNCHANGED azureVars
    /\ Len(starts) < MaxInFlight
    /\ \E f \in Faults(OldStartBody), keep \in BOOLEAN :
         LET run == Run(OldStartBody, f) IN
         /\ VendorAfter(session, run, keep)
         /\ IF run.threw
            THEN /\ starts' = starts
                 /\ ev' = Ev("startSDK", "failed", run.calls, run.calls,
                             "none")
            ELSE /\ starts' = Append(starts, [pc |-> "init",
                                              log |-> run.calls])
                 /\ ev' = Ev("startSDK", "await", run.calls, run.calls,
                             "none")
    /\ UNCHANGED <<avatarEnv, avatarState, stops, spoken>>

\* init resolved: setIsSDKInitialized(true)
OldStartSDK_resolve ==
    /\ variant = "older"
    /\ UNCHANGED ui
    /\ UNCHANGED azureVars
    /\ \E i \in 1..Len(starts) :
         /\ starts[i].pc = "init"
         /\ isSDKInitialized' = TRUE
         /\ starts' = RemoveAt(starts, i)
         /\ ev' = Ev("startSDK.then", "ok", <<>>, starts[i].log, "none")
    /\ session' = TRUE
    /\ UNCHANGED <<avatarEnv, isAvatarSpeaking, status, isInitializing,
                   currentEchoIndex, stops, statusCb, chatCb, spoken>>

\* init rejected: catch { console.error(...) }
OldStartSDK_reject ==
    /\ variant = "older"
    /\ UNCHANGED ui
    /\ UNCHANGED azureVars
    /\ \E i \in 1..Len(starts) :
         /\ starts[i].pc = "init"
         /\ starts' = RemoveAt(starts, i)
         /\ ev' = Ev("startSDK.catch", "failed", <<>>, starts[i].log, "none")
    /\ UNCHANGED <<avatarEnv, avatarState, stops, statusCb, chatCb, session,
                   spoken>>

\* ----------------------------------------------- older variant: stopSDK
\* await KlleonChat.init({ sdk_key: "", avatar_id: AVATAR_ID })
OldStopProlog == <<VC("init", <<"", AVATAR_ID>>)>>

\* KlleonChat.destroy()
OldStopBody == <<VC("destroy", <<>>)>>

\* The click: no guard in the handler; init0 remembers whether the session
\* was initialized when stopSDK was invoked.
OldStopSDK ==
    /\ variant = "older"
    /\ Click(OldStopDisabled)
    /\ UNCHANGED azureVars
    /\ Len(stops) < MaxStops
    /\ \E f \in Faults(OldStopProlog), keep \in BOOLEAN :
         LET run == Run(OldStopProlog, f) IN
         /\ VendorAfter(session, run, keep)
         /\ IF run.threw
            THEN /\ stops' = stops
                 /\ ev' = Ev("stopSDK", "failed", run.calls, run.calls,
                             "none")
            ELSE /\ stops' = Append(stops, [pc |-> "init", log |-> run.calls,
                                            init0 |-> isSDKInitialized])
                 /\ ev' = Ev("stopSDK", "await", run.calls, run.calls,
                             "none")
    /\ UNCHANGED <<avatarEnv, avatarState, starts, spoken>>

\* the stop that destroys the session and leaves isSDKInitialized as it was
OldStopSDK_resolve_NoReset ==
    /\ variant = "older"
    /\ UNCHANGED ui
    /\ UNCHANGED azureVars
    /\ \E i \in 1..Len(stops), f \in Faults(OldStopBody), keep \in BOOLEAN :
         LET run == Run(OldStopBody, f)
             xlog == stops[i].log \o run.calls IN
         /\ VendorAfter(FALSE, run, keep)
         /\ stops' = RemoveAt(stops, i)
         /\ UNCHANGED avatarState
         /\ ev' = EvX("stopSDK.then", IF run.threw THEN "failed" ELSE "ok",
                      run.calls, xlog, "none", stops[i].init0)
    /\ UNCHANGED <<avatarEnv, starts, spoken>>

\* the empty-key init resolved ("re-initialize with an empty key to end the
\* session", line 76): destroy, then the three setters
OldStopSDK_resolve ==
    /\ variant = "older"
    /\ UNCHANGED ui
    /\ UNCHANGED azureVars
    /\ \E i \in 1..Len(stops), f \in Faults(OldStopBody), keep \in BOOLEAN :
         LET run == Run(OldStopBody, f)
             xlog == stops[i].log \o run.calls IN
         /\ VendorAfter(FALSE, run, keep)
         /\ stops' = RemoveAt(stops, i)
         /\ IF run.threw
            THEN /\ UNCHANGED avatarState
                 /\ ev' = EvX("stopSDK.then", "failed", run.calls, xlog, "none",
                              stops[i].init0)
            ELSE /\ StopReset
                 /\ ev' = EvX("stopSDK.then", "ok", run.calls, xlog, "none",
                              stops[i].init0)
    /\ UNCHANGED <<avatarEnv, starts, spoken>>

\* the empty-key init rejected: catch { console.error(...) }; what the
\* rejected init did to the session is the vendor's
OldStopSDK_reject ==
    /\ variant = "older"
    /\ UNCHANGED ui
    /\ UNCHANGED azureVars
    /\ \E i \in 1..Len(stops) :
         /\ stops' = RemoveAt(stops, i)
         /\ ev' = EvX("stopSDK.catch", "failed", <<>>, stops[i].log, "none",
                    stops[i].init0)
    /\ UNCHANGED <<avatarEnv, avatarState, starts, statusCb, chatCb, session,
                   spoken>>

\* -------------------------------------- older variant: the echo script
\* setCurrentEchoIndex((prevIndex) => (prevIndex + 1) % echoMessages.length)
OldNextEchoIndex == (currentEchoIndex + 1) % Len(echoMessages)

OldPlayNextEcho ==
    /\ variant = "older"
    /\ Click(OldSpeakDisabled)
    /\ UNCHANGED azureVars
    /\ IF ~isSDKInitialized
       THEN /\ ev' = Ev("playNextEcho", "ignored", <<>>, <<>>, "startFirst")
            /\ UNCHANGED <<currentEchoIndex, spoken>>
       ELSE IF Len(echoMessages) > 0
       THEN Speak(OldNextEchoIndex, FALSE)
       ELSE /\ ev' = Ev("playNextEcho", "ignored", <<>>, <<>>, "none")
            /\ UNCHANGED <<currentEchoIndex, spoken>>
    /\ UNCHANGED <<avatarEnv, isAvatarSpeaking, status, isSDKInitialized,
                   isInitializing, vendorState>>

OldStopSpeech ==
    /\ variant = "older"
    /\ Click(OldStopSpeechDisabled)
    /\ UNCHANGED azureVars
    /\ StopSpeechBody
    /\ UNCHANGED <<avatarEnv, avatarState, vendorState, spoken>>

OldResetEchoIndex ==
    /\ variant = "older"
    /\ Click(OldResetDisabled)
    /\ UNCHANGED azureVars
    /\ currentEchoIndex' = 0
    /\ spoken' = spoken
    /\ ev' = Ev("resetEchoIndex", "ok", <<>>, <<>>, "none")
    /\ UNCHANGED <<avatarEnv, isAvatarSpeaking, status, isSDKInitialized,
                   isInitializing, vendorState>>

\* --------------------------------------------------------- vendor events
\* KlleonChat.onStatusEvent((status) => { setStatus(status) })
onStatusEvent ==
    /\ UNCHANGED ui
    /\ UNCHANGED azureVars
    /\ statusCb
    /\ \E s \in StatusValues :
         /\ status' = s
         /\ ev' = Ev("onStatusEvent", s, <<>>, <<>>, "none")
    /\ UNCHANGED <<avatarEnv, isAvatarSpeaking, isSDKInitialized,
                   isInitializing, currentEchoIndex, vendorState, spoken>>

\* KlleonChat.onChatEvent((chatData) => { ... setIsAvatarSpeaking ... })
onChatEvent ==
    /\ UNCHANGED ui
    /\ UNCHANGED azureVars
    /\ chatCb
    /\ \E t \in ChatTypes :
         /\ isAvatarSpeaking' =
               IF t = "RESPONSE_IS_ENDED" THEN FALSE
               ELSE IF t = "PREPARING_RESPONSE" THEN TRUE
               ELSE isAvatarSpeaking
         /\ ev' = Ev("onChatEvent", t, <<>>, <<>>, "none")
    /\ UNCHANGED <<avatarEnv, status, isSDKInitialized, isInitializing,
                   currentEchoIndex, vendorState, spoken>>

\* ------------------------------------------------------------- unmount
\* The component is unmounted: React runs the cleanup of the last effect (the
\* guarded variant's; the older variant's effect returns none).  Executions
\* suspended at an await go on afterwards.
unmount ==
    /\ mounted
    /\ mounted' = FALSE
    /\ UNCHANGED ui
    /\ UNCHANGED azureVars
    /\ LET prog == IF variant = "guarded"
                   THEN EffectCleanup(isSDKInitialized) ELSE <<>> IN
       \E f \in Faults(prog), keep \in BOOLEAN :
         LET run == Run(prog, f) IN
         /\ VendorAfter(session, run, keep)
         /\ ev' = Ev("unmount", IF run.threw THEN "failed" ELSE "ok",
                     run.calls, run.calls, "none")
    /\ UNCHANGED <<variant, SDK_KEY, AVATAR_ID, echoMessages, avatarState,
                   starts, stops, spoken>>

\* ================================================== the speech widget
Reasons == {"RecognizedSpeech", "NoMatch"}
Texts == {"", "a", "bb", "cc"}
\* r.text.length
TextLen(t) == CASE t = "" -> 0 [] t = "a" -> 1 [] OTHER -> 2
Results ==
    [reason : {"RecognizedSpeech"}, text : Texts]
      \cup [reason : {"NoMatch"}, text : {"a"}]
\* what PronunciationAssessmentResult.fromResult finds in a result: the three
\* scores and the word ("scored"), or no score, each shown as "N/A", and no
\* word ("unscored")
Assessment(res) == IF res.text = "cc" THEN "unscored" ELSE "scored"

\* a line of the log: its kind and what it shows
Ln(k, t) == [k |-> k, t |-> t]

\* const append = (s) => setLog((p) => p + s + "\n"), for each line of lines
append(lg, lines) ==
    LET F[i \in 0..Len(lines)] ==
          IF i = 0 THEN lg ELSE F[i - 1] (+) SetToBag({lines[i]})
    IN  F[Len(lines)]

\* the log holds a line of kind k
Shows(k) == \E l \in BagToSet(log) : l.k = k

\* What the last step was: handler h, its outcome r, the alert it raised,
\* and what it read: the result of a recognized event, the buffer a stop
\* callback selected from.
AEvX(h, r, alert, arg) == [h |-> h, r |-> r, alert |-> alert, arg |-> arg]

AEv(h, r, alert) == AEvX(h, r, alert, <<>>)

AzureInit ==
    /\ AZURE_KEY \in {"", "key"}
    /\ AZURE_REGION \in {"", "region"}
    /\ log = EmptyBag
    /\ listening = FALSE
    /\ recognizerRef = 0
    /\ resultsRef = <<>>
    /\ recognizers = <<>>
    /\ micPending = 0
    /\ aev = AEv("mount", "ok", "none")

\* only one of the two variables checked
AzureCredentialsMissing_KeyOnly == AZURE_KEY = ""

\* if (!key || !region) throw new Error(...)
AzureCredentialsMissing == AZURE_KEY = "" \/ AZURE_REGION = ""

\* {!listening ? <button onClick={startMic}> : <button onClick={stopMic}>}
StartMicShown == ~listening
StopMicShown == listening

\* The click on the start button: const ok = await ensureMicPermission()
startMic ==
    /\ StartMicShown
    /\ micPending < MaxMic
    /\ micPending' = micPending + 1
    /\ aev' = AEv("startMic", "await", "none")
    /\ UNCHANGED <<azureEnv, azureState, recognizers, avatarVars, ui>>

\* the log cleared before the permission is looked at
startMic_denied_ClearsLog ==
    /\ micPending > 0
    /\ micPending' = micPending - 1
    /\ log' = EmptyBag
    /\ aev' = AEv("startMic.denied", "denied", "micPermission")
    /\ UNCHANGED <<azureEnv, listening, recognizerRef, resultsRef, recognizers,
                   avatarVars, ui>>

\* getUserMedia rejected: alert(...); return false; and startMic returns
startMic_denied ==
    /\ micPending > 0
    /\ micPending' = micPending - 1
    /\ aev' = AEv("startMic.denied", "denied", "micPermission")
    /\ UNCHANGED <<azureEnv, azureState, recognizers, avatarVars, ui>>

\* getUserMedia resolved: setLog(""), the buffer reset, and the try block.
\* The vendor may throw before the recognizer exists ("early": the configs,
\* the constructor) or after recognizerRef holds it ("late": applyTo,
\* startContinuousRecognitionAsync); the catch appends an error line.
startMic_granted ==
    /\ micPending > 0
    /\ micPending' = micPending - 1
    /\ resultsRef' = <<>>
    /\ IF AzureCredentialsMissing
       THEN /\ log' = append(EmptyBag, <<Ln("Error", "env")>>)
            /\ aev' = AEv("startMic.granted", "failed", "none")
            /\ UNCHANGED <<recognizerRef, recognizers>>
       ELSE \E fault \in {"none", "early", "late"} :
              IF fault = "early"
              THEN /\ log' = append(EmptyBag, <<Ln("Error", "vendor")>>)
                   /\ aev' = AEv("startMic.granted", "failed", "none")
                   /\ UNCHANGED <<recognizerRef, recognizers>>
              ELSE LET id == Len(recognizers) + 1 IN
                   /\ Len(recognizers) < MaxRecognizers
                   /\ recognizers' = Append(recognizers,
                         [open |-> TRUE,
                          phase |-> IF fault = "none" THEN "starting"
                                    ELSE "idle",
                          stops |-> 0])
                   /\ recognizerRef' = id
                   /\ log' = IF fault = "none" THEN EmptyBag
                             ELSE append(EmptyBag, <<Ln("Error", "vendor")>>)
                   /\ aev' = AEv("startMic.granted",
                                 IF fault = "none" THEN "starting"
                                 ELSE "failed", "none")
    /\ UNCHANGED <<azureEnv, listening, avatarVars, ui>>

\* A closed recognizer with no callback outstanding does nothing more: its
\* record keeps only that it is closed.
Settled(rec) ==
    IF ~rec.open /\ rec.stops = 0 /\ rec.phase # "starting"
    THEN [open |-> FALSE, phase |-> "closed", stops |-> 0]
    ELSE rec

\* startContinuousRecognitionAsync's success callback
startMic_started ==
    /\ BagCardinality(log) < MaxLog
    /\ \E id \in DOMAIN recognizers :
         /\ recognizers[id].phase = "starting"
         /\ recognizers' = [recognizers EXCEPT ![id] =
                               Settled([@ EXCEPT !.phase = "started"])]
         /\ listening' = TRUE
         /\ log' = append(log, <<Ln("Started", "")>>)
         /\ aev' = AEv("startMic.started", "ok", "none")
    /\ UNCHANGED <<azureEnv, recognizerRef, resultsRef, micPending,
                   avatarVars, ui>>

\* startContinuousRecognitionAsync's error callback
startMic_startError ==
    /\ BagCardinality(log) < MaxLog
    /\ \E id \in DOMAIN recognizers :
         /\ recognizers[id].phase = "starting"
         /\ recognizers' = [recognizers EXCEPT ![id] =
                               Settled([@ EXCEPT !.phase = "failed",
                                                 !.open = FALSE])]
         /\ recognizerRef' = 0
         /\ log' = append(log, <<Ln("StartError", "")>>)
         /\ aev' = AEv("startMic.startError", "failed", "none")
    /\ UNCHANGED <<azureEnv, listening, resultsRef, micPending, avatarVars,
                   ui>>

\* a recognizer delivers events from its start until it is closed
Live(id) ==
    recognizers[id].open /\ recognizers[id].phase \in {"starting", "started"}

\* the session-started and canceled lines in the log
Notices ==
    CopiesIn(Ln("SessionStarted", ""), log) + CopiesIn(Ln("Canceled", ""), log)

\* recognizer.sessionStarted = (_s, e) => append(...)
sessionStarted ==
    /\ BagCardinality(log) < MaxLog
    /\ Notices < MaxNotices
    /\ \E id \in DOMAIN recognizers :
         /\ Live(id)
         /\ log' = append(log, <<Ln("SessionStarted", "")>>)
         /\ aev' = AEv("sessionStarted", "ok", "none")
    /\ UNCHANGED <<azureEnv, listening, recognizerRef, resultsRef,
                   recognizers, micPending, avatarVars, ui>>

\* recognizer.canceled = (_s, e) => append(...)
canceled ==
    /\ BagCardinality(log) < MaxLog
    /\ Notices < MaxNotices
    /\ \E id \in DOMAIN recognizers :
         /\ Live(id)
         /\ log' = append(log, <<Ln("Canceled", "")>>)
         /\ aev' = AEv("canceled", "ok", "none")
    /\ UNCHANGED <<azureEnv, listening, recognizerRef, resultsRef,
                   recognizers, micPending, avatarVars, ui>>

\* the text not looked at
Buffered_AnyText(res) == res.reason = "RecognizedSpeech"

\* e.result.reason === RecognizedSpeech && e.result.text
Buffered(res) == res.reason = "RecognizedSpeech" /\ res.text # ""

\* recognizer.recognized = (_s, e) => { if (...) resultsRef.current.push(...) }
recognized ==
    /\ \E id \in DOMAIN recognizers, res \in Results :
         /\ Live(id)
         /\ IF Buffered(res)
            THEN /\ Len(resultsRef) < MaxBuf
                 /\ resultsRef' = Append(resultsRef, res)
                 /\ aev' = AEvX("recognized", "pushed", "none", <<res>>)
            ELSE /\ resultsRef' = resultsRef
                 /\ aev' = AEvX("recognized", "dropped", "none", <<res>>)
    /\ UNCHANGED <<azureEnv, log, listening, recognizerRef, recognizers,
                   micPending, avatarVars, ui>>

\* the first of the longest kept: b.text.length > a.text.length ? b : a
LongestFirst(cands) ==
    LET F[i \in 1..Len(cands)] ==
          IF i = 1 THEN cands[1]
          ELSE IF TextLen(cands[i].text) > TextLen(F[i - 1].text)
               THEN cands[i] ELSE F[i - 1]
    IN  F[Len(cands)]

\* candidates.reduce((a, b) => b.text.length >= a.text.length ? b : a)
LongestLast(cands) ==
    LET F[i \in 1..Len(cands)] ==
          IF i = 1 THEN cands[1]
          ELSE IF TextLen(cands[i].text) >= TextLen(F[i - 1].text)
               THEN cands[i] ELSE F[i - 1]
    IN  F[Len(cands)]

\* nothing reported when no utterance was buffered
processBufferedResults_Silent(threw) ==
    LET candidates == SelectSeq(resultsRef, Buffered) IN
    IF Len(candidates) = 0
    THEN [lines |-> <<>>, results |-> resultsRef, threw |-> FALSE]
    ELSE LET finalRes == LongestLast(candidates) IN
         IF threw
         THEN [lines |-> <<Ln("FINAL", finalRes.text)>>,
               results |-> resultsRef, threw |-> TRUE]
         ELSE [lines |-> <<Ln("FINAL", finalRes.text),
                           Ln("Scores", Assessment(finalRes))>>
                         \o (IF Assessment(finalRes) = "scored"
                             THEN <<Ln("Word", finalRes.text)>> ELSE <<>>),
               results |-> <<>>, threw |-> FALSE]

\* processBufferedResults: the lines it appends, the buffer it leaves, and
\* whether it threw.  PronunciationAssessmentResult.fromResult is the vendor's:
\* when it throws (threw), the FINAL line is in the log, the scores are not,
\* and the buffer is not cleared.
processBufferedResults(threw) ==
    LET candidates == SelectSeq(resultsRef, Buffered) IN
    IF Len(candidates) = 0
    THEN [lines |-> <<Ln("NoSpeech", "")>>, results |-> resultsRef,
          threw |-> FALSE]
    ELSE LET finalRes == LongestLast(candidates) IN
         IF threw
         THEN [lines |-> <<Ln("FINAL", finalRes.text)>>,
               results |-> resultsRef, threw |-> TRUE]
         ELSE [lines |-> <<Ln("FINAL", finalRes.text),
                           Ln("Scores", Assessment(finalRes))>>
                         \o (IF Assessment(finalRes) = "scored"
                             THEN <<Ln("Word", finalRes.text)>> ELSE <<>>),
               results |-> <<>>, threw |-> FALSE]

\* The click on the stop button:
\* const r = recognizerRef.current; if (!r) return;
\* r.stopContinuousRecognitionAsync(cb, err)
stopMic ==
    /\ StopMicShown
    /\ IF recognizerRef = 0
       THEN /\ aev' = AEv("stopMic", "ignored", "none")
            /\ UNCHANGED recognizers
       ELSE /\ recognizers[recognizerRef].stops < MaxStopCalls
            /\ recognizers' = [recognizers EXCEPT ![recognizerRef].stops = @ + 1]
            /\ aev' = AEv("stopMic", "stopping", "none")
    /\ UNCHANGED <<azureEnv, azureState, micPending, avatarVars, ui>>

\* stopContinuousRecognitionAsync's success callback: the stopped line,
\* processBufferedResults, r.close(), recognizerRef = null, setListening(false);
\* nothing after processBufferedResults runs when it throws.
stopMic_stopped ==
    /\ \E id \in DOMAIN recognizers, threw \in BOOLEAN :
         LET done == processBufferedResults(threw) IN
         /\ recognizers[id].stops > 0
         /\ done.threw = threw
         /\ BagCardinality(log) + 1 + Len(done.lines) <= MaxLog
         /\ log' = append(log, <<Ln("Stopped", "")>> \o done.lines)
         /\ resultsRef' = done.results
         /\ IF done.threw
            THEN /\ recognizers' = [recognizers EXCEPT ![id] =
                                      [@ EXCEPT !.stops = @ - 1]]
                 /\ UNCHANGED <<recognizerRef, listening>>
                 /\ aev' = AEvX("stopMic.stopped", "threw", "none",
                                resultsRef)
            ELSE /\ recognizers' = [recognizers EXCEPT ![id] =
                                      Settled([@ EXCEPT !.stops = @ - 1,
                                                        !.open = FALSE])]
                 /\ recognizerRef' = 0
                 /\ listening' = FALSE
                 /\ aev' = AEvX("stopMic.stopped", "ok", "none", resultsRef)
    /\ UNCHANGED <<azureEnv, micPending, avatarVars, ui>>

\* a stop error that gives the recognizer up
stopMic_stopError_Closes ==
    /\ BagCardinality(log) < MaxLog
    /\ \E id \in DOMAIN recognizers :
         /\ recognizers[id].stops > 0
         /\ recognizers' = [recognizers EXCEPT ![id] =
                               Settled([@ EXCEPT !.stops = @ - 1,
                                                 !.open = FALSE])]
         /\ recognizerRef' = 0
         /\ log' = append(log, <<Ln("StopError", "")>>)
         /\ aev' = AEv("stopMic.stopError", "failed", "none")
    /\ UNCHANGED <<azureEnv, listening, resultsRef, micPending, avatarVars,
                   ui>>

\* stopContinuousRecognitionAsync's error callback
stopMic_stopError ==
    /\ BagCardinality(log) < MaxLog
    /\ \E id \in DOMAIN recognizers :
         /\ recognizers[id].stops > 0
         /\ recognizers' = [recognizers EXCEPT ![id] =
                               Settled([@ EXCEPT !.stops = @ - 1])]
         /\ log' = append(log, <<Ln("StopError", "")>>)
         /\ aev' = AEv("stopMic.stopError", "failed", "none")
    /\ UNCHANGED <<azureEnv, listening, recognizerRef, resultsRef,
                   micPending, avatarVars, ui>>

\* ============================================== the two specifications
\* the avatar widget, beside a speech widget left alone
Init ==
    /\ AvatarInit
    /\ AzureInit
    /\ AZURE_KEY = "key"
    /\ AZURE_REGION = "region"

Next ==
    \/ startSDK
    \/ startSDK_timer
    \/ startSDK_resolve
    \/ startSDK_reject
    \/ stopSDK
    \/ playNextEcho
    \/ stopSpeech
    \/ resetEchoIndex
    \/ OldStartSDK
    \/ OldStartSDK_resolve
    \/ OldStartSDK_reject
    \/ OldStopSDK
    \/ OldStopSDK_resolve
    \/ OldStopSDK_reject
    \/ OldPlayNextEcho
    \/ OldStopSpeech
    \/ OldResetEchoIndex
    \/ onStatusEvent
    \/ onChatEvent
    \/ unmount

Spec == Init /\ [][Next]_vars

\* The avatar widget when timers fire and promises settle: the 100 ms timer
\* of startSDK fires, and the init promise a startSDK awaits is resolved or
\* rejected.
SpecLive ==
    /\ Init
    /\ [][Next]_vars
    /\ WF_vars(startSDK_timer)
    /\ WF_vars(startSDK_resolve \/ startSDK_reject)

\* the speech widget, beside an avatar widget left alone
InitAzure ==
    /\ AzureInit
    /\ AvatarInit
    /\ variant = "guarded"
    /\ SDK_KEY = "key"
    /\ AVATAR_ID = "avatar"
    /\ echoMessages = <<>>

NextAzure ==
    \/ startMic
    \/ startMic_denied
    \/ startMic_granted
    \/ startMic_started
    \/ startMic_startError
    \/ sessionStarted
    \/ canceled
    \/ recognized
    \/ stopMic
    \/ stopMic_stopped
    \/ stopMic_stopError

SpecAzure == InitAzure /\ [][NextAzure]_vars

StartEnabled ==
    IF variant = "guarded" THEN ~StartDisabled ELSE ~OldStartDisabled

StopEnabled ==
    IF variant = "guarded" THEN ~StopDisabled ELSE ~OldStopDisabled

SpeakEnabled ==
    IF variant = "guarded" THEN ~SpeakDisabled ELSE ~OldSpeakDisabled

StopSpeechEnabled ==
    IF variant = "guarded" THEN ~StopSpeechDisabled ELSE ~OldStopSpeechDisabled

\* the handlers a button invokes
ClickHandlers ==
    {"startSDK", "stopSDK", "playNextEcho", "stopSpeech", "resetEchoIndex"}

\* ====================================================== the claims
HasCall(calls, op) == \E i \in DOMAIN calls : calls[i].op = op

\* C1: in the guarded widget at most one vendor init is pending at any time,
\* and a startSDK invoked while a start is still in progress or while the
\* session is initialized makes no vendor call and changes no state.
C1_PendingInits == {i \in DOMAIN starts : starts[i].pc = "init"}

C1_SingleInit ==
    /\ [](variant = "guarded" => Cardinality(C1_PendingInits) <= 1)
    /\ [][(/\ variant = "guarded"
           /\ ev'.h = "startSDK"
           /\ (starts # <<>> \/ isSDKInitialized))
          => (/\ ev'.calls = <<>>
              /\ UNCHANGED <<avatarState, vendorState>>)]_vars

C1_Witness ==
    /\ variant = "guarded"
    /\ ev.h = "startSDK"
    /\ ev.r = "ignored"
    /\ C1_PendingInits # {}

\* C2: the cursor stays within 0..length of the echo list, and every echo
\* call is made with the line at an index in 0..length-1, never undefined.
C2_CursorInRange ==
    /\ currentEchoIndex \in 0..Len(echoMessages)
    /\ \A i \in DOMAIN ev.calls :
         ev.calls[i].op = "echo" =>
           /\ ev.at \in 0..(Len(echoMessages) - 1)
           /\ ev.calls[i].arg # <<"undefined">>
           /\ ev.calls[i].arg = <<echoMessages[ev.at + 1]>>

C2_Witness ==
    /\ ev.h = "playNextEcho"
    /\ ev.alert = "allRead"
    /\ Len(echoMessages) >= 2
    /\ currentEchoIndex = Len(echoMessages)

\* C3: in every execution of startSDK, init is called only after that
\* execution has registered the status callback and the chat callback.
C3_InitAfterCallbacks(calls) ==
    \A i \in DOMAIN calls :
      calls[i].op = "init" =>
        /\ \E j \in 1..(i - 1) : calls[j].op = "onStatusEvent"
        /\ \E j \in 1..(i - 1) : calls[j].op = "onChatEvent"

C3_CallbacksBeforeInit ==
    /\ ev.h \in StartHandlers => C3_InitAfterCallbacks(ev.xlog)
    /\ \A i \in DOMAIN starts : C3_InitAfterCallbacks(starts[i].log)

C3_Witness ==
    /\ variant = "guarded"
    /\ ev.h = "startSDK.timer"
    /\ ev.r = "await"
    /\ HasCall(ev.calls, "init")

\* C4: a stopSDK invoked on an initialized session in which no vendor call
\* fails has called destroy and ends with isSDKInitialized = false, status
\* IDLE and isAvatarSpeaking = false; the older variant has called init with
\* an empty sdk_key before destroy.
C4_StopResets ==
    (ev.h \in StopHandlers /\ ev.r = "ok" /\ ev.init0) =>
      /\ HasCall(ev.xlog, "destroy")
      /\ ~isSDKInitialized
      /\ status = "IDLE"
      /\ ~isAvatarSpeaking
      /\ variant = "older" =>
           \E i, j \in DOMAIN ev.xlog :
             /\ i < j
             /\ ev.xlog[i] = VC("init", <<"", AVATAR_ID>>)
             /\ ev.xlog[j].op = "destroy"

C4_Witness ==
    /\ variant = "older"
    /\ ev.h = "stopSDK.then"
    /\ ev.r = "ok"
    /\ ev.init0

\* C5: a startSDK that fails (init rejects, or a vendor call throws) ends
\* with isSDKInitialized = false, isInitializing = false and status IDLE,
\* and the start button enabled again.  Stated of the runs in which every
\* handler was invoked through an enabled button.
C5_FailedStartIsIdle ==
    (ui /\ ev.h \in StartHandlers /\ ev.r = "failed") =>
      /\ ~isSDKInitialized
      /\ ~isInitializing
      /\ status = "IDLE"
      /\ StartEnabled

\* C6: a stopSDK in which a vendor call fails resets the widget to idle
\* (isSDKInitialized = false, status IDLE, isAvatarSpeaking = false) or
\* raises an alert, and the user can start again.  Stated of the runs in
\* which every handler was invoked through an enabled button.
C6_FailedStopIsIdle ==
    (ui /\ ev.h \in StopHandlers /\ ev.r = "failed") =>
      /\ \/ (~isSDKInitialized /\ status = "IDLE" /\ ~isAvatarSpeaking)
         \/ ev.alert # "none"
      /\ StartEnabled

\* C7: with the SDK key or the avatar ID missing, startSDK fails fast: it
\* performs no vendor operation (no destroy, no registration, no init),
\* shows the user an error and ends not initialized and not initializing.
\* Stated of the runs in which every handler was invoked through an enabled
\* button.
C7_MissingCredentialsFailFast ==
    (ui /\ CredentialsMissing /\ ev.h \in StartHandlers) =>
      /\ ev.xlog = <<>>
      /\ ev.r = "failed"
      /\ ev.alert # "none"
      /\ ~isSDKInitialized
      /\ ~isInitializing

\* C8 (as amended): with the speech key or region missing, a startMic that
\* was granted the microphone constructs no recognizer, starts no recognition
\* and leaves exactly one error line in the log it has just cleared;
\* recognizerRef stays null and listening stays false throughout.
C8_MissingEnvFailsFast ==
    (AZURE_KEY = "" \/ AZURE_REGION = "") =>
      /\ recognizers = <<>>
      /\ recognizerRef = 0
      /\ ~listening
      /\ aev.h = "startMic.granted" =>
           /\ aev.r = "failed"
           /\ log = SetToBag({Ln("Error", "env")})

C8_Witness ==
    /\ AZURE_KEY = "key"
    /\ AZURE_REGION = ""
    /\ aev.h = "startMic.granted"
    /\ aev.r = "failed"
    /\ Shows("Error")
    /\ recognizers = <<>>

\* C8 (as claimed): with the speech key or region missing, every startMic
\* that has returned constructed no recognizer, started no recognition, left
\* recognizerRef null and listening false, and an error line shows in the log.
C8_EveryStartMicShowsError ==
    (/\ AZURE_KEY = "" \/ AZURE_REGION = ""
     /\ aev.h \in {"startMic.granted", "startMic.denied"}) =>
      /\ recognizers = <<>>
      /\ recognizerRef = 0
      /\ ~listening
      /\ Shows("Error")

\* C9: in the non-wrapping widget the k-th echo forwarded since mount or the
\* last reset is one call with echoMessages[k-1], and the cursor changes
\* only by +1 on a forwarded echo or to 0 on a reset.
C9_Sequential ==
    /\ [](variant = "guarded" =>
            /\ currentEchoIndex = spoken
            /\ (ev.h = "playNextEcho" /\ ev.calls # <<>>) =>
                 LET k == IF ev.r = "spoke" THEN spoken ELSE spoken + 1 IN
                 /\ k \in DOMAIN echoMessages
                 /\ ev.calls = <<VC("echo", <<echoMessages[k]>>)>>)
    /\ [][variant = "guarded" =>
            \/ currentEchoIndex' = currentEchoIndex
            \/ /\ currentEchoIndex' = currentEchoIndex + 1
               /\ ev'.h = "playNextEcho"
               /\ ev'.r = "spoke"
            \/ /\ currentEchoIndex' = 0
               /\ ev'.h = "resetEchoIndex"]_vars

C9_Witness ==
    /\ variant = "guarded"
    /\ ev.h = "playNextEcho"
    /\ ev.r = "spoke"
    /\ spoken = Len(echoMessages)
    /\ Len(echoMessages) >= 3

\* C10: resetEchoIndex sets the cursor to 0 and changes nothing else: the
\* session booleans and the status keep their values and no vendor operation
\* is called.
C10_ResetFrame ==
    [][ev'.h = "resetEchoIndex" =>
         /\ currentEchoIndex' = 0
         /\ ev'.calls = <<>>
         /\ UNCHANGED <<isSDKInitialized, isInitializing, isAvatarSpeaking,
                        status, vendorState>>]_vars

C10_Witness ==
    /\ ui
    /\ ev.h = "resetEchoIndex"
    /\ ev.at > 0
    /\ currentEchoIndex = 0
    /\ isSDKInitialized
    /\ status = "VIDEO_CAN_PLAY"

\* C11: between startMic's reset of the buffer and a stop callback's selection
\* the buffer is append-only: a recognized event with reason RecognizedSpeech
\* and a non-empty text appends exactly its result at the end, every other
\* recognized event and every other step leaves the buffer as it is.
C11_AppendOnly ==
    [][\/ aev'.h \in {"startMic.granted", "stopMic.stopped"}
       \/ /\ aev'.h = "recognized"
          /\ LET res == aev'.arg[1] IN
             IF res.reason = "RecognizedSpeech" /\ res.text # ""
             THEN resultsRef' = Append(resultsRef, res)
             ELSE resultsRef' = resultsRef
       \/ /\ aev'.h # "recognized"
          /\ resultsRef' = resultsRef]_vars

C11_Witness ==
    /\ aev.h = "recognized"
    /\ aev.r = "dropped"
    /\ aev.arg = <<[reason |-> "RecognizedSpeech", text |-> ""]>>
    /\ Len(resultsRef) = 2
    /\ resultsRef[1].text = "bb"
    /\ resultsRef[2].text = "a"

\* C12: a stop callback that finds utterances in the buffer reports exactly
\* one FINAL text; it is the text of a buffered utterance at least as long as
\* every buffered utterance and strictly longer than every one buffered after
\* it (of several longest, the last).
C12_LongestLastWins ==
    [][(aev'.h = "stopMic.stopped" /\ resultsRef # <<>>) =>
         LET added == log' (-) log
             finals == {l \in BagToSet(added) : l.k = "FINAL"}
         IN  /\ Cardinality(finals) = 1
             /\ \A l \in finals :
                  /\ CopiesIn(l, added) = 1
                  /\ \E k \in DOMAIN resultsRef :
                       /\ l.t = resultsRef[k].text
                       /\ \A j \in DOMAIN resultsRef :
                            /\ TextLen(resultsRef[j].text)
                                 <= TextLen(resultsRef[k].text)
                            /\ j > k => TextLen(resultsRef[j].text)
                                          < TextLen(resultsRef[k].text)]_vars

C12_Witness ==
    /\ aev.h = "stopMic.stopped"
    /\ aev.r = "ok"
    /\ Len(aev.arg) = 2
    /\ aev.arg[1].text = "bb"
    /\ aev.arg[2].text = "cc"
    /\ CopiesIn(Ln("FINAL", "cc"), log) = 1
    /\ ~Shows("NoSpeech")

\* the reports of processBufferedResults in the log: each run appends either
\* the no-speech line or one FINAL line
C13_Reports ==
    LET made == {l \in BagToSet(log) : l.k \in {"NoSpeech", "FINAL"}}
    IN  BagCardinality([l \in made |-> CopiesIn(l, log)])

\* C13: processBufferedResults runs once for a listening session.  Stated of
\* the runs with a single recognizer, whose log holds the lines of that one
\* session: it shows at most one report, also after stopMic was invoked twice
\* before the stop callback.
C13_FinalizedOnce ==
    Len(recognizers) = 1 => C13_Reports <= 1

\* C14: a startMic that is denied the microphone raises the permission alert
\* and does nothing else: no recognizer is constructed or started, and the
\* log, the buffer, recognizerRef and listening keep their values.
C14_DeniedOnlyAlerts ==
    [][aev'.h = "startMic.denied" =>
         /\ aev'.alert = "micPermission"
         /\ UNCHANGED <<log, resultsRef, recognizerRef, listening,
                        recognizers>>]_vars

C14_Witness ==
    /\ aev.h = "startMic.denied"
    /\ aev.alert = "micPermission"
    /\ Shows("FINAL")
    /\ recognizers # <<>>
    /\ ~listening

\* C15: a stop callback that finds no utterance in the buffer appends the
\* stopped line and the no-speech line and nothing else (no FINAL text, no
\* scores), closes its recognizer, and leaves recognizerRef null, listening
\* false and the buffer empty.
C15_NoSpeechCaptured ==
    [][(aev'.h = "stopMic.stopped" /\ resultsRef = <<>>) =>
         /\ aev'.r = "ok"
         /\ log' = log (+) SetToBag({Ln("Stopped", ""), Ln("NoSpeech", "")})
         /\ recognizerRef' = 0
         /\ ~listening'
         /\ resultsRef' = <<>>
         /\ \E id \in DOMAIN recognizers : recognizers'[id] # recognizers[id]
         /\ \A id \in DOMAIN recognizers :
              recognizers'[id] # recognizers[id] => ~recognizers'[id].open]_vars

C15_Witness ==
    /\ aev.h = "stopMic.stopped"
    /\ aev.r = "ok"
    /\ aev.arg = <<>>
    /\ CopiesIn(Ln("NoSpeech", ""), log) = 1
    /\ Shows("SessionStarted")
    /\ ~Shows("FINAL")
    /\ ~Shows("Scores")
    /\ recognizerRef = 0
    /\ ~listening

\* C16: the start and stop buttons are never both enabled; the speak button
\* is enabled only when the session is initialized, the avatar is not
\* speaking, no start is in progress and the cursor is below the list length;
\* the stop-speech button is enabled only when the session is initialized and
\* the avatar is speaking; and a handler invoked through an enabled button
\* (after a history of such clicks) is never cut short by its own guard and
\* raises no alert.
C16_ButtonsReflectState ==
    /\ [](/\ ~(StartEnabled /\ StopEnabled)
          /\ SpeakEnabled =>
               /\ isSDKInitialized
               /\ ~isAvatarSpeaking
               /\ ~isInitializing
               /\ currentEchoIndex < Len(echoMessages)
          /\ StopSpeechEnabled => (isSDKInitialized /\ isAvatarSpeaking))
    /\ [][(ui /\ ui' /\ ev'.h \in ClickHandlers) =>
            (ev'.r # "ignored" /\ ev'.alert = "none")]_vars

C16_Witness ==
    /\ ui
    /\ variant = "guarded"
    /\ ev.h = "playNextEcho"
    /\ ev.r = "spoke"
    /\ ev.alert = "none"
    /\ Len(echoMessages) >= 2
    /\ currentEchoIndex = Len(echoMessages)
    /\ ~SpeakEnabled
    /\ StopEnabled
    /\ ~StartEnabled

\* C17: in the guarded widget no vendor session is left live after unmount:
\* neither right after an unmount whose cleanup did not fail, nor when a
\* start that was awaiting init at unmount resolves afterwards.
C17_NoSessionAfterUnmount ==
    (/\ variant = "guarded"
     /\ ~mounted
     /\ ev.h \in {"unmount", "startSDK.then"}
     /\ ev.r = "ok") => ~session

\* C18: while the component stays mounted, a successful stopSDK of the guarded
\* widget results in exactly one destroy call: the effect cleanup issues none
\* on the change of isSDKInitialized.
C18_OneDestroyPerStop ==
    (/\ variant = "guarded"
     /\ mounted
     /\ ev.h = "stopSDK"
     /\ ev.r = "ok") =>
      Cardinality({i \in DOMAIN ev.calls : ev.calls[i].op = "destroy"}) = 1

\* C19: a stop callback that completes leaves the buffer empty, its
\* recognizer closed, recognizerRef null and listening false, however many
\* utterances were buffered; a stop error appends its line and nothing else:
\* no recognizer is closed, recognizerRef, the buffer and listening keep their
\* values, and nothing is reported from the buffer.
C19_StopCallbackOutcome ==
    [][/\ (aev'.h = "stopMic.stopped" /\ aev'.r = "ok") =>
            /\ resultsRef' = <<>>
            /\ recognizerRef' = 0
            /\ ~listening'
            /\ \E id \in DOMAIN recognizers :
                 recognizers'[id] # recognizers[id]
            /\ \A id \in DOMAIN recognizers :
                 recognizers'[id] # recognizers[id] => ~recognizers'[id].open
       /\ aev'.h = "stopMic.stopError" =>
            /\ UNCHANGED <<recognizerRef, resultsRef, listening>>
            /\ \A id \in DOMAIN recognizers :
                 recognizers'[id].open = recognizers[id].open
            /\ log' = log (+) SetToBag({Ln("StopError", "")})]_vars

C19_Witness ==
    /\ aev.h = "stopMic.stopped"
    /\ aev.r = "ok"
    /\ Len(aev.arg) = 2
    /\ Shows("StopError")
    /\ resultsRef = <<>>
    /\ recognizerRef = 0
    /\ ~listening
    /\ \A id \in DOMAIN recognizers : ~recognizers[id].open

\* the recognizers constructed and not closed
C20_Open == {id \in DOMAIN recognizers : recognizers[id].open}

\* C20: at most one recognizer that has been constructed and not yet closed
\* exists at any time, whatever the interleaving of startMic clicks,
\* permission answers, start callbacks and stopMic.
C20_AtMostOneOpen == Cardinality(C20_Open) <= 1

\* C21: in the older widget, over the interleavings of start clicks, stop
\* clicks and init resolutions, isSDKInitialized is true only while the
\* vendor session is live: no step other than a failing one (a rejected init,
\* a vendor call that throws) leads from a state where isSDKInitialized
\* implies a live session to a state where it does not.
C21_InitializedOnlyWhileLive ==
    [][(/\ variant = "older"
        /\ isSDKInitialized => session
        /\ ev'.r # "failed") => (isSDKInitialized' => session')]_vars

\* the init of a second start resolved while a stop was awaiting its
\* empty-key init
C21_Witness ==
    /\ variant = "older"
    /\ ui
    /\ ev.h = "startSDK.then"
    /\ ev.r = "ok"
    /\ HasCall(ev.xlog, "init")
    /\ isSDKInitialized
    /\ session
    /\ Len(stops) > 0
\* C22: echo and the user's stopSpeech reach the vendor only while the
\* session is initialized.  playNextEcho invoked with isSDKInitialized false
\* raises an alert, makes no vendor call and leaves the cursor; stopSpeech
\* invoked with isSDKInitialized false makes no vendor call; stopSpeech in
\* any state leaves the cursor, isAvatarSpeaking, status and
\* isSDKInitialized as they are.
C22_ForwardOnlyWhenInitialized ==
    [][/\ (ev'.h = "playNextEcho" /\ ~isSDKInitialized) =>
            /\ ev'.alert # "none"
            /\ ev'.calls = <<>>
            /\ UNCHANGED currentEchoIndex
       /\ (ev'.h = "stopSpeech" /\ ~isSDKInitialized) => ev'.calls = <<>>
       /\ ev'.h = "stopSpeech" =>
            UNCHANGED <<currentEchoIndex, isAvatarSpeaking, status,
                        isSDKInitialized>>]_vars

\* stopSpeech was invoked after a stop that left the cursor past the first
\* line
C22_Witness ==
    /\ ev.h = "stopSpeech"
    /\ ev.r = "ignored"
    /\ ev.calls = <<>>
    /\ ~isSDKInitialized
    /\ currentEchoIndex > 0
\* C23: in the guarded widget isAvatarSpeaking is never true while
\* isSDKInitialized is false, however the vendor's chat events interleave
\* with startSDK, a pending init and stopSDK.  Stated of the states in which
\* an init is pending, in the runs in which every handler was invoked
\* through an enabled button.
C23_SpeakingOnlyWhenInitialized ==
    (/\ variant = "guarded"
     /\ ui
     /\ mounted
     /\ C1_PendingInits # {}
     /\ isAvatarSpeaking) => isSDKInitialized
\* C24: in the guarded widget isInitializing is true exactly while a startSDK
\* execution is in progress, and when timers fire and the init promise
\* settles every startSDK leaves isInitializing false, with the start or the
\* stop button enabled again: neither the early throw on missing
\* credentials, nor a rejected init, nor a resolved init leaves it true.
C24_InitializingEnds ==
    /\ [](variant = "guarded" => (isInitializing <=> starts # <<>>))
    /\ (variant = "guarded" /\ isInitializing) ~>
          (~isInitializing /\ (~StartDisabled \/ ~StopDisabled))

\* a rejected init left the start button enabled
C24_Witness ==
    /\ variant = "guarded"
    /\ ui
    /\ ev.h = "startSDK.catch"
    /\ ev.r = "failed"
    /\ HasCall(ev.xlog, "init")
    /\ starts = <<>>
    /\ ~isInitializing
    /\ ~StartDisabled
====
